---- MODULE Spec2Model ----
(***************************************************************************)
(* Model of the medicine tracker backend (backend/app): the Drug and       *)
(* DoctorVacation records with their computed properties (models.py), the  *)
(* CRUD operations (crud.py), the reminder composition and transport       *)
(* (email_service.py) and the scheduled jobs and manual triggers (main.py).*)
(*                                                                         *)
(* Numbers.  Pill quantities are Python floats.  They are modelled as      *)
(* exact rationals <<num, den>> in lowest terms with den > 0, so half      *)
(* pills and the /14.0 average are represented exactly; binary rounding of *)
(* the float operations is outside the model.  Optional values are <<>>    *)
(* (None) or <<x>> (a value x).                                            *)
(***************************************************************************)
EXTENDS Integers, Sequences, FiniteSets, TLC

\* ------------------------------------------------------------------ bounds
MaxCreates == 1      \* drugs created by requests on top of the rows found at startup
MaxPackages == 2     \* largest packages value of a refill request
MaxAmount == 70      \* refills are explored while current_amount stays <= this
MaxNow == 7          \* last clock value (day number; days 0..6 are ISO week 1)
MaxVacations == 2    \* most vacation rows stored at once
MaxRequests == 2     \* most requests in flight for one trigger route
StartDay == MaxNow - 1
Days == StartDay .. MaxNow

\* ------------------------------------------------------- program constants
DefaultLimit == 100  \* crud.get_drugs(skip=0, limit=100)
ReorderWeeks == 3    \* Drug.needs_reorder threshold
DaysPerWeek == 7     \* Drug.weeks_remaining divisor
CycleDays == 14      \* Drug.daily_consumption: two-week cycle
HttpOk == 200        \* EmailService.send_email success status
HttpError == 500     \* stands for every status code other than 200

\* ---------------------------------------------------------------- optionals
None == <<>>
Some(x) == <<x>>
IsNone(o) == o = <<>>
TheVal(o) == o[1]

\* ---------------------------------------------------------------- rationals
Abs(n) == IF n < 0 THEN 0 - n ELSE n

RECURSIVE GCD(_, _)
GCD(a, b) == IF b = 0 THEN a ELSE GCD(b, a % b)

\* the rational n/d (d # 0) in lowest terms with a positive denominator
Norm(n, d) ==
    LET s == IF d < 0 THEN 0 - 1 ELSE 1
        g == GCD(Abs(n), Abs(d))
    IN  <<(s * n) \div g, (s * d) \div g>>

R(n) == <<n, 1>>
Half == <<1, 2>>

\* the outcome of a float division by zero (Python raises ZeroDivisionError)
ZeroDivisionError == <<"ZeroDivisionError">>
IsNum(x) == Len(x) = 2

RAdd(x, y) == Norm(x[1] * y[2] + y[1] * x[2], x[2] * y[2])
RLt(x, y) == IsNum(x) /\ IsNum(y) /\ x[1] * y[2] < y[1] * x[2]
RDiv(x, y) ==
    IF ~IsNum(x) \/ ~IsNum(y) THEN ZeroDivisionError
    ELSE IF y[1] = 0 THEN ZeroDivisionError
    ELSE Norm(x[1] * y[2], x[2] * y[1])

\* ------------------------------------------------- Drug computed properties
\* daily_consumption with the weekly totals averaged over one week, not two
daily_consumption_one_week(d) ==
    IF d.schedule_type = "weekly_alternating"
    THEN IF ~IsNone(d.even_week_pills) /\ ~IsNone(d.odd_week_pills)
         THEN RDiv(RAdd(TheVal(d.even_week_pills), TheVal(d.odd_week_pills)),
                   R(DaysPerWeek))
         ELSE R(0)
    ELSE RAdd(RAdd(d.morning_pre_food, d.morning_post_food),
              RAdd(d.evening_pre_food, d.evening_post_food))

\* daily_consumption with the evening dose after food left out of the sum
daily_consumption_three_slots(d) ==
    IF d.schedule_type = "weekly_alternating"
    THEN IF ~IsNone(d.even_week_pills) /\ ~IsNone(d.odd_week_pills)
         THEN RDiv(RAdd(TheVal(d.even_week_pills), TheVal(d.odd_week_pills)),
                   R(CycleDays))
         ELSE R(0)
    ELSE RAdd(RAdd(d.morning_pre_food, d.morning_post_food), d.evening_pre_food)

\* daily_consumption that sums the dose slots for schedule_type daily only
daily_consumption_daily_only(d) ==
    IF d.schedule_type = "weekly_alternating"
    THEN IF ~IsNone(d.even_week_pills) /\ ~IsNone(d.odd_week_pills)
         THEN RDiv(RAdd(TheVal(d.even_week_pills), TheVal(d.odd_week_pills)),
                   R(CycleDays))
         ELSE R(0)
    ELSE IF d.schedule_type = "daily"
    THEN RAdd(RAdd(d.morning_pre_food, d.morning_post_food),
              RAdd(d.evening_pre_food, d.evening_post_food))
    ELSE R(0)

daily_consumption(d) ==
    IF d.schedule_type = "weekly_alternating"
    THEN IF ~IsNone(d.even_week_pills) /\ ~IsNone(d.odd_week_pills)
         THEN RDiv(RAdd(TheVal(d.even_week_pills), TheVal(d.odd_week_pills)),
                   R(CycleDays))
         ELSE R(0)
    ELSE RAdd(RAdd(d.morning_pre_food, d.morning_post_food),
              RAdd(d.evening_pre_food, d.evening_post_food))

\* days_remaining without the guard on a zero consumption
days_remaining_unguarded(d) == RDiv(d.current_amount, daily_consumption(d))

days_remaining(d) ==
    IF daily_consumption(d) = R(0)
    THEN R(0)
    ELSE RDiv(d.current_amount, daily_consumption(d))

weeks_remaining(d) == RDiv(days_remaining(d), R(DaysPerWeek))

\* needs_reorder with the threshold included
needs_reorder_inclusive(d) ==
    IsNum(weeks_remaining(d)) /\ ~RLt(R(ReorderWeeks), weeks_remaining(d))

needs_reorder(d) == RLt(weeks_remaining(d), R(ReorderWeeks))

\* ISO week number of a day; day 0 is the Monday of week 1 of a 52-week year
IsoWeek(t) == ((t \div 7) % 52) + 1

\* current_week_type with the two names exchanged
current_week_type_swapped(t) == IF IsoWeek(t) % 2 = 0 THEN "odd" ELSE "even"

current_week_type(t) == IF IsoWeek(t) % 2 = 0 THEN "even" ELSE "odd"

\* "x or 0" on an optional float
OrZero(o) == IF IsNone(o) THEN R(0) ELSE TheVal(o)

current_week_pills(d, t) ==
    IF d.schedule_type = "weekly_alternating"
    THEN IF current_week_type(t) = "even"
         THEN OrZero(d.even_week_pills)
         ELSE OrZero(d.odd_week_pills)
    ELSE R(0)

\* days_remaining as the reminder prints it, f"{x:.1f}": the number of tenths,
\* rounded to nearest, ties to even
Fmt1f(x) ==
    LET n == 10 * x[1]
        q == n \div x[2]
        r == n % x[2]
    IN  IF 2 * r > x[2] \/ (2 * r = x[2] /\ q % 2 = 1) THEN q + 1 ELSE q

\* ------------------------------------------------------------------- state
VARIABLES
    drugs,        \* table drugs: the rows in rowid order
    vacations,    \* table doctor_vacations: the rows in rowid order
    now,          \* the clock: the current day (utcnow, now and today)
    seed,         \* rows the drugs table held at startup
    last,         \* the last handler invoked: what it returned and what it sent
    pc,           \* where each invocation of a trigger stands on the event loop
    sessions,     \* the database sessions that are open, by the invocation owning them
    reqs          \* the refill requests in flight

vars == <<drugs, vacations, now, seed, last, pc, sessions, reqs>>

\* ----------------------------------------------------- the event loop
\* The two jobs and the two trigger routes are coroutines of one asyncio
\* loop.  APScheduler keeps one instance of a job at a time (max_instances
\* defaults to 1); a route has one invocation for each request in flight.
ScheduledJobs == {"send_weekly_reminder_job", "send_reorder_reminder_job"}
TriggerRoutes == {"trigger_weekly_reminder", "trigger_reorder_reminder"}
Invocations ==
    (ScheduledJobs \X {1}) \cup (TriggerRoutes \X (1 .. MaxRequests))

Idle == [i \in Invocations |-> "idle"]

\* a refill request slot: no request, or the request that holds it; initial
\* is the current_amount stored when the request came in, kept for the
\* comparison with the amount stored in the end
NoRequest == [phase |-> "idle", drug_id |-> 0, packages |-> 0, initial |-> None]
NoRequests == [n \in 1 .. MaxRequests |-> NoRequest]

\* db.close() at the end of the try block only, not in a finally clause
db_close_on_return(open, owner, raised) ==
    IF raised THEN open ELSE open \ {owner}

\* finally: db.close(), whether the body returned or raised
db_close(open, owner, raised) == open \ {owner}

\* the coroutine op returns: its running invocation, if the loop is modelled
\* as holding one, is over
Returned(op) ==
    [i \in Invocations |->
        IF i[1] = op /\ pc[i] = "running" THEN "idle" ELSE pc[i]]

\* observation of a handler that ran today and sent nothing; returned is what
\* send_email gave back to the handler, FALSE when it was not called, and
\* raised is whether an exception left the handler
Obs(op, id, result) ==
    [op |-> op, id |-> id, at |-> now, result |-> result,
     send_email_calls |-> 0, create_calls |-> 0, returned |-> FALSE,
     raised |-> FALSE,
     subject |-> "", body |-> <<>>, drugs_arg |-> <<>>, vacation_arg |-> None]

\* ------------------------------------------------------------ request data
\* DrugCreate payloads (schemas.DrugBase: package_size > 0, doses >= 0)
Moxonidin ==
    [name |-> "Moxonidin", dosage_strength |-> None, package_size |-> 30,
     schedule_type |-> "daily",
     morning_pre_food |-> R(0), morning_post_food |-> R(2),
     evening_pre_food |-> R(0), evening_post_food |-> R(1),
     even_week_pills |-> None, odd_week_pills |-> None,
     current_amount |-> R(9), notes |-> None]

LThyroxin ==
    [name |-> "L-thyroxin", dosage_strength |-> Some("75ug"), package_size |-> 30,
     schedule_type |-> "weekly_alternating",
     morning_pre_food |-> R(1), morning_post_food |-> R(0),
     evening_pre_food |-> R(0), evening_post_food |-> R(0),
     even_week_pills |-> Some(R(4)), odd_week_pills |-> Some(R(3)),
     current_amount |-> R(35), notes |-> None]

Unscheduled == [Moxonidin EXCEPT !.name = "Reserve",
                                 !.morning_post_food = R(0),
                                 !.evening_post_food = R(0),
                                 !.current_amount = R(0)]

CreateInputs == {Moxonidin, LThyroxin, Unscheduled}

\* DrugUpdate payloads after model_dump(exclude_unset=True): the fields set
UpdateInputs ==
    {[current_amount |-> R(63)],
     [schedule_type |-> "weekly_alternating"]}

\* a row of the drugs table
Row(id, in, created, refilled) ==
    in @@ [id |-> id, last_refilled_at |-> refilled,
           created_at |-> created, updated_at |-> created]

\* rows transferred by migrate_data before startup: odd ids hold exactly three
\* weeks of Moxonidin, even ids hold three days
SeedRow(i) ==
    Row(i, [Moxonidin EXCEPT !.current_amount = IF i % 2 = 1 THEN R(63) ELSE R(9)],
        0, None)

\* ids a request may name: the first row, the rows created in this run and
\* one id that is never stored
TargetIds(n) == {1} \cup ((n + 1) .. (n + MaxCreates + 1))

\* --------------------------------------------------------------- crud.py
Range(s) == {s[i] : i \in DOMAIN s}
Max(S) == CHOOSE x \in S : \A y \in S : y <= x
Min2(a, b) == IF a < b THEN a ELSE b

\* INTEGER PRIMARY KEY on SQLite: one more than the largest rowid stored
NextId(rows) == IF rows = <<>> THEN 1 ELSE Max({r.id : r \in Range(rows)}) + 1

\* a lookup that falls back on the first row when no row has the id
IndexOf_or_first(rows, id) ==
    IF \E i \in DOMAIN rows : rows[i].id = id
    THEN CHOOSE i \in DOMAIN rows : rows[i].id = id
    ELSE IF rows = <<>> THEN 0 ELSE 1

\* position of the row with this id, 0 when there is none
IndexOf(rows, id) ==
    IF \E i \in DOMAIN rows : rows[i].id = id
    THEN CHOOSE i \in DOMAIN rows : rows[i].id = id
    ELSE 0

Remove(rows, k) == SubSeq(rows, 1, k - 1) \o SubSeq(rows, k + 1, Len(rows))

get_drug(rows, id) ==
    IF IndexOf(rows, id) = 0 THEN None ELSE Some(rows[IndexOf(rows, id)])

get_drugs(rows, skip, limit) ==
    SubSeq(rows, skip + 1, Min2(Len(rows), skip + limit))

\* the reorder list without the filter
get_drugs_needing_reorder_unfiltered(rows) == get_drugs(rows, 0, DefaultLimit)

get_drugs_needing_reorder(rows) ==
    SelectSeq(get_drugs(rows, 0, DefaultLimit), needs_reorder)

\* a response whose rates were worked out before the last refill
DrugResponse_before_refill(d, t) ==
    LET was == IF IsNone(d.last_refilled_at) THEN d
               ELSE [d EXCEPT !.current_amount = R(0)]
    IN  [f \in DOMAIN d |-> d[f]]
        @@ [daily_consumption |-> daily_consumption(was),
            days_remaining |-> days_remaining(was),
            weeks_remaining |-> weeks_remaining(was),
            needs_reorder |-> needs_reorder(was),
            current_week_type |-> current_week_type(t),
            current_week_pills |-> current_week_pills(was, t)]

\* schemas.DrugResponse built from a row (from_attributes)
DrugResponse(d, t) ==
    [f \in {"id", "name", "dosage_strength", "package_size", "schedule_type",
            "morning_pre_food", "morning_post_food", "evening_pre_food",
            "evening_post_food", "even_week_pills", "odd_week_pills",
            "current_amount", "notes", "last_refilled_at", "created_at",
            "updated_at"} |-> d[f]]
    @@ [daily_consumption |-> daily_consumption(d),
        days_remaining |-> days_remaining(d),
        weeks_remaining |-> weeks_remaining(d),
        needs_reorder |-> needs_reorder(d),
        current_week_type |-> current_week_type(t),
        current_week_pills |-> current_week_pills(d, t)]

create_drug(in) ==
    /\ NextId(drugs) <= seed + MaxCreates
    /\ LET row == Row(NextId(drugs), in, now, None)
       IN  /\ drugs' = Append(drugs, row)
           /\ last' = Obs("create_drug", row.id, Some(DrugResponse(row, now)))
    /\ UNCHANGED <<vacations, now, seed, pc, sessions, reqs>>

\* an update that stamps the row as refilled as well
Updated_as_refill(d, u, t) ==
    LET e == [f \in DOMAIN d |-> IF f \in DOMAIN u THEN u[f] ELSE d[f]]
    IN  IF e = d THEN d ELSE [e EXCEPT !.updated_at = t, !.last_refilled_at = Some(t)]

\* the row after setattr of every field set in the payload; the UPDATE and so
\* onupdate fire only when a value changed
Updated(d, u, t) ==
    LET e == [f \in DOMAIN d |-> IF f \in DOMAIN u THEN u[f] ELSE d[f]]
    IN  IF e = d THEN d ELSE [e EXCEPT !.updated_at = t]

\* the Float columns of drugs declared nullable=False
NotNullFloats ==
    {"morning_pre_food", "morning_post_food", "evening_pre_food",
     "evening_post_food", "current_amount"}

\* a table whose columns take a null
IntegrityError_never(u) == FALSE

\* the commit fails: the payload sets a NOT NULL column to null (among the
\* payloads of the model only Float columns are set to null)
IntegrityError(u) == \E f \in DOMAIN u \cap NotNullFloats : u[f] = None

update_drug(id, u) ==
    LET k == IndexOf(drugs, id)
    IN  /\ IF k = 0
           THEN /\ last' = Obs("update_drug", id, None)
                /\ UNCHANGED drugs
           ELSE IF IntegrityError(u)
           THEN /\ last' = [Obs("update_drug", id, None) EXCEPT !.raised = TRUE]
                /\ UNCHANGED drugs
           ELSE /\ drugs' = [drugs EXCEPT ![k] = Updated(drugs[k], u, now)]
                /\ last' = Obs("update_drug", id, Some(DrugResponse(drugs'[k], now)))
        /\ UNCHANGED <<vacations, now, seed, pc, sessions, reqs>>

delete_drug(id) ==
    LET k == IndexOf(drugs, id)
    IN  /\ IF k = 0
           THEN /\ last' = Obs("delete_drug", id, FALSE)
                /\ UNCHANGED drugs
           ELSE /\ drugs' = Remove(drugs, k)
                /\ last' = Obs("delete_drug", id, TRUE)
        /\ UNCHANGED <<vacations, now, seed, pc, sessions, reqs>>

\* the refill that stores the added pills in place of the new total
Refilled_overwrite(d, packages, t) ==
    LET pills_to_add == packages * d.package_size
    IN  [d EXCEPT !.current_amount = R(pills_to_add),
                  !.last_refilled_at = Some(t),
                  !.updated_at = t]

\* the refill that adds the pills and does not stamp the row
Refilled_unstamped(d, packages, t) ==
    LET pills_to_add == packages * d.package_size
    IN  [d EXCEPT !.current_amount = RAdd(d.current_amount, R(pills_to_add)),
                  !.updated_at = t]

Refilled(d, packages, t) ==
    LET pills_to_add == packages * d.package_size
    IN  [d EXCEPT !.current_amount = RAdd(d.current_amount, R(pills_to_add)),
                  !.last_refilled_at = Some(t),
                  !.updated_at = t]

refill_drug(id, packages) ==
    LET k == IndexOf(drugs, id)
    IN  /\ IF k = 0
           THEN /\ last' = Obs("refill_drug", id, None)
                /\ UNCHANGED drugs
           ELSE /\ RLt(Refilled(drugs[k], packages, now).current_amount,
                       R(MaxAmount + 1))
                /\ drugs' = [drugs EXCEPT ![k] = Refilled(drugs[k], packages, now)]
                /\ last' = Obs("refill_drug", id, Some(DrugResponse(drugs'[k], now)))
        /\ UNCHANGED <<vacations, now, seed, pc, sessions, reqs>>

\* ---------------------------------- POST /drugs/{drug_id}/refill, by steps
\* A request goes through three steps of the event loop.  FastAPI validates
\* the payload and resolves Depends(get_db) in the thread pool: the session
\* is open.  Then the coroutine of the route runs crud.refill_drug, which
\* reads the row, adds the pills and commits without an await in between.
\* After the response the dependency is left and the session closed.
\* A request that comes in takes the lowest slot that is free.
refill_arrive(n, id, packages) ==
    /\ reqs[n].phase = "idle"
    /\ \A m \in 1 .. (n - 1) : reqs[m].phase # "idle"
    /\ reqs' = [reqs EXCEPT ![n] =
                    [phase |-> "open", drug_id |-> id, packages |-> packages,
                     initial |-> IF get_drug(drugs, id) = None THEN None
                                 ELSE Some(TheVal(get_drug(drugs, id)).current_amount)]]
    /\ sessions' = sessions \cup {<<"refill_drug", n>>}
    /\ UNCHANGED <<drugs, vacations, now, seed, last, pc>>

\* a body that works on the row as it was when the request came in
Loaded_on_arrival(rows, r) ==
    IF get_drug(rows, r.drug_id) = None \/ r.initial = None
    THEN get_drug(rows, r.drug_id)
    ELSE Some([TheVal(get_drug(rows, r.drug_id))
                   EXCEPT !.current_amount = TheVal(r.initial)])

\* db_drug in crud.refill_drug: the row get_drug reads in the body
Loaded(rows, r) == get_drug(rows, r.drug_id)

refill_route(n) ==
    LET r == reqs[n]
        k == IndexOf(drugs, r.drug_id)
        db_drug == Loaded(drugs, r)
    IN  /\ r.phase = "open"
        /\ IF db_drug = None
           THEN /\ last' = Obs("refill_drug", r.drug_id, None)
                /\ UNCHANGED drugs
           ELSE /\ RLt(Refilled(TheVal(db_drug), r.packages, now).current_amount,
                       R(MaxAmount + 1))
                /\ drugs' = [drugs EXCEPT
                                ![k] = Refilled(TheVal(db_drug), r.packages, now)]
                /\ last' = Obs("refill_drug", r.drug_id,
                               Some(DrugResponse(drugs'[k], now)))
        /\ reqs' = [reqs EXCEPT ![n].phase = "answered"]
        /\ UNCHANGED <<vacations, now, seed, pc, sessions>>

refill_close(n) ==
    /\ reqs[n].phase = "answered"
    /\ reqs' = [reqs EXCEPT ![n] = NoRequest]
    /\ sessions' = sessions \ {<<"refill_drug", n>>}
    /\ UNCHANGED <<drugs, vacations, now, seed, last, pc>>

\* GET /drugs/{drug_id}
read_drug(id) ==
    /\ last' = Obs("get_drug", id,
                   IF IndexOf(drugs, id) = 0 THEN None
                   ELSE Some(DrugResponse(TheVal(get_drug(drugs, id)), now)))
    /\ UNCHANGED <<drugs, vacations, now, seed, pc, sessions, reqs>>

\* GET /drugs-status/reorder
read_reorder ==
    /\ last' = Obs("get_drugs_needing_reorder", 0, get_drugs_needing_reorder(drugs))
    /\ UNCHANGED <<drugs, vacations, now, seed, pc, sessions, reqs>>

\* ------------------------------------------------- DoctorVacation (models.py)
\* A row holds id, start_date, end_date and notes; created_at and updated_at,
\* which no handler reads, are left out.
is_current(v, today) == v.start_date <= today /\ today <= v.end_date
\* is_upcoming that still holds on the first day
is_upcoming_inclusive(v, today) == today <= v.start_date

is_upcoming(v, today) == today < v.start_date
is_past(v, today) == today > v.end_date

\* DoctorVacationCreate payloads <<start_date, end_date>>; the schema does not
\* compare the two dates, so the last one is accepted as well
VacationInputs ==
    {<<MaxNow, MaxNow>>, <<StartDay, StartDay>>, <<MaxNow + 1, StartDay - 1>>,
     <<StartDay, MaxNow>>}

VacationIds == 1 .. (MaxVacations + 1)

\* schemas.DoctorVacationResponse built from a row
DoctorVacationResponse(v, today) ==
    v @@ [is_current |-> is_current(v, today),
          is_upcoming |-> is_upcoming(v, today),
          is_past |-> is_past(v, today)]

create_doctor_vacation(in) ==
    /\ Len(vacations) < MaxVacations
    /\ LET row == [id |-> NextId(vacations), start_date |-> in[1],
                   end_date |-> in[2], notes |-> None]
       IN  /\ vacations' = Append(vacations, row)
           /\ last' = Obs("create_doctor_vacation", row.id,
                          Some(DoctorVacationResponse(row, now)))
    /\ UNCHANGED <<drugs, now, seed, pc, sessions, reqs>>

\* GET /doctor-vacations/{vacation_id}
read_doctor_vacation(id) ==
    /\ last' = Obs("get_doctor_vacation", id,
                   IF IndexOf(vacations, id) = 0 THEN None
                   ELSE Some(DoctorVacationResponse(
                                 vacations[IndexOf(vacations, id)], now)))
    /\ UNCHANGED <<drugs, vacations, now, seed, pc, sessions, reqs>>

delete_doctor_vacation(id) ==
    LET k == IndexOf(vacations, id)
    IN  /\ IF k = 0
           THEN /\ last' = Obs("delete_doctor_vacation", id, FALSE)
                /\ UNCHANGED vacations
           ELSE /\ vacations' = Remove(vacations, k)
                /\ last' = Obs("delete_doctor_vacation", id, TRUE)
        /\ UNCHANGED <<drugs, now, seed, pc, sessions, reqs>>

\* DoctorVacationUpdate payloads after model_dump(exclude_unset=True); the
\* schema does not compare the new date with the stored one
VacationUpdateInputs == {[end_date |-> StartDay - 1], [start_date |-> StartDay]}

\* PUT /doctor-vacations/{vacation_id}
update_doctor_vacation(id, u) ==
    LET k == IndexOf(vacations, id)
        row == [f \in DOMAIN vacations[k] |->
                   IF f \in DOMAIN u THEN u[f] ELSE vacations[k][f]]
    IN  /\ IF k = 0
           THEN /\ last' = Obs("update_doctor_vacation", id, None)
                /\ UNCHANGED vacations
           ELSE /\ vacations' = [vacations EXCEPT ![k] = row]
                /\ last' = Obs("update_doctor_vacation", id,
                               Some(DoctorVacationResponse(row, now)))
        /\ UNCHANGED <<drugs, now, seed, pc, sessions, reqs>>

\* a lookup that leaves out the vacation that ends today
get_current_doctor_vacation_open_end(rows, today) ==
    LET hits == SelectSeq(rows, LAMBDA v : v.start_date <= today /\ v.end_date > today)
    IN  IF hits = <<>> THEN None ELSE Some(hits[1])

\* filter(start_date <= today, end_date >= today).first()
get_current_doctor_vacation(rows, today) ==
    LET hits == SelectSeq(rows, LAMBDA v : v.start_date <= today /\ v.end_date >= today)
    IN  IF hits = <<>> THEN None ELSE Some(hits[1])

\* GET /doctor-vacations/current
read_current_doctor_vacation ==
    /\ last' = Obs("get_current_doctor_vacation", 0,
                   IF get_current_doctor_vacation(vacations, now) = None THEN None
                   ELSE Some(DoctorVacationResponse(
                                 TheVal(get_current_doctor_vacation(vacations, now)),
                                 now)))
    /\ UNCHANGED <<drugs, vacations, now, seed, pc, sessions, reqs>>

\* ------------------------------------------------------- email_service.py
\* what the environment does to one send_email call: whether the Mailjet
\* settings are all present, whether the client raises, and the status code
\* of the answer when it does not
Transport ==
    {[configured |-> FALSE, raises |-> FALSE, status_code |-> HttpOk],
     [configured |-> TRUE, raises |-> TRUE, status_code |-> HttpOk],
     [configured |-> TRUE, raises |-> FALSE, status_code |-> HttpOk],
     [configured |-> TRUE, raises |-> FALSE, status_code |-> HttpError]}

\* a send_email that calls the transport again after a failed call
send_email_retrying(subject, body, env) ==
    IF ~env.configured THEN <<FALSE, 0, FALSE>>
    ELSE IF env.raises THEN <<FALSE, 2, FALSE>>
    ELSE IF env.status_code = HttpOk THEN <<TRUE, 1, FALSE>>
    ELSE <<FALSE, 2, FALSE>>

\* a send_email without the except clause
send_email_uncaught(subject, body, env) ==
    IF ~env.configured THEN <<FALSE, 0, FALSE>>
    ELSE IF env.raises THEN <<FALSE, 1, TRUE>>
    ELSE IF env.status_code = HttpOk THEN <<TRUE, 1, FALSE>>
    ELSE <<FALSE, 1, FALSE>>

\* send_email: <<value returned, calls of mailjet.send.create, whether an
\* exception leaves the method>>; the call is inside try / except Exception,
\* so what the client raises ends in return False
send_email(subject, body, env) ==
    IF ~env.configured THEN <<FALSE, 0, FALSE>>
    ELSE IF env.raises THEN <<FALSE, 1, FALSE>>
    ELSE IF env.status_code = HttpOk THEN <<TRUE, 1, FALSE>>
    ELSE <<FALSE, 1, FALSE>>

Truthy(o) == ~IsNone(o) /\ TheVal(o) # ""

WeeklySubject == "Weekly Medicine Reminder - Time to Set Up Pills"

WeeklyEntry(d, t) ==
    [name |-> d.name,
     strength |-> IF Truthy(d.dosage_strength) THEN d.dosage_strength ELSE None,
     schedule |-> IF d.schedule_type = "weekly_alternating"
                  THEN <<"Weekly alternating", current_week_type(t),
                         current_week_pills(d, t)>>
                  ELSE <<"Daily",
                         RAdd(RAdd(d.morning_pre_food, d.morning_post_food),
                              RAdd(d.evening_pre_food, d.evening_post_food))>>,
     pills_remaining |-> d.current_amount,
     days_remaining |-> Fmt1f(days_remaining(d))]

WeeklyBody(list, t) ==
    [greeting |-> "Hello! It's time to set up grandma's medicines for the week.",
     entries |-> [i \in 1 .. Len(list) |-> WeeklyEntry(list[i], t)],
     closing |-> "Have a great week!"]

\* the part of an observation that send_weekly_reminder fills in
send_weekly_reminder(list, t, env) ==
    LET sent == send_email(WeeklySubject, WeeklyBody(list, t), env)
    IN  [returned |-> sent[1], send_email_calls |-> 1, create_calls |-> sent[2],
         raised |-> sent[3],
         subject |-> WeeklySubject, body |-> WeeklyBody(list, t)]

ReorderSubject == "Medikamentenbestellung - Dora Langenhop"

ReorderEntry(d) ==
    [name |-> d.name,
     strength |-> IF Truthy(d.dosage_strength) THEN d.dosage_strength ELSE None,
     package_size |-> d.package_size]

ReorderBody(list) ==
    [greeting |-> "Guten Tag, es werden Rezepte benoetigt",
     entries |-> [i \in 1 .. Len(list) |-> ReorderEntry(list[i])],
     closing |-> "Viele Gruesse"]

\* the part of an observation that send_reorder_reminder fills in; all_drugs
\* and doctor_vacation are parameters the body never reads
send_reorder_reminder(list, all_drugs, doctor_vacation, env) ==
    IF list = <<>>
    THEN [returned |-> FALSE, send_email_calls |-> 0, create_calls |-> 0,
          raised |-> FALSE, subject |-> "", body |-> <<>>]
    ELSE LET sent == send_email(ReorderSubject, ReorderBody(list), env)
         IN  [returned |-> sent[1], send_email_calls |-> 1, create_calls |-> sent[2],
              raised |-> sent[3],
              subject |-> ReorderSubject, body |-> ReorderBody(list)]

\* ----------------------------------------------------- main.py: triggers
\* The message a route returns is the tuple of its parts, so that a message
\* with a count in it compares with one without.
\* the observation of a trigger: what it returned and what the reminder did
Sent(op, result, m, list, vac) ==
    [op |-> op, id |-> 0, at |-> now, result |-> result,
     send_email_calls |-> m.send_email_calls, create_calls |-> m.create_calls,
     returned |-> m.returned, raised |-> m.raised,
     subject |-> m.subject, body |-> m.body, drugs_arg |-> list, vacation_arg |-> vac]

send_weekly_reminder_job(env) ==
    /\ LET list == get_drugs(drugs, 0, DefaultLimit)
           m == send_weekly_reminder(list, now, env)
       IN  last' = Sent("send_weekly_reminder_job", None, m, list, None)
    /\ sessions' = db_close(sessions \cup {<<"send_weekly_reminder_job", 1>>},
                            <<"send_weekly_reminder_job", 1>>, FALSE)
    /\ UNCHANGED <<drugs, vacations, now, seed, reqs>>
    /\ pc' = Returned("send_weekly_reminder_job")

send_reorder_reminder_job(env) ==
    /\ LET all_drugs == get_drugs(drugs, 0, DefaultLimit)
           drugs_to_reorder == get_drugs_needing_reorder(drugs)
           doctor_vacation == get_current_doctor_vacation(vacations, now)
       IN  IF drugs_to_reorder # <<>>
           THEN last' = Sent("send_reorder_reminder_job", None,
                             send_reorder_reminder(drugs_to_reorder, all_drugs,
                                                   doctor_vacation, env),
                             drugs_to_reorder, doctor_vacation)
           ELSE last' = Obs("send_reorder_reminder_job", 0, None)
    /\ sessions' = db_close(sessions \cup {<<"send_reorder_reminder_job", 1>>},
                            <<"send_reorder_reminder_job", 1>>, FALSE)
    /\ UNCHANGED <<drugs, vacations, now, seed, reqs>>
    /\ pc' = Returned("send_reorder_reminder_job")

\* where a job can be left by an exception: crud.get_drugs, the first read
\* of the database, raises, or the reminder raises outside the try block of
\* send_email
JobFailures == {"get_drugs", "send"}

\* the weekly job leaves by an exception, through its finally clause
send_weekly_reminder_job_raises(where) ==
    /\ last' = [Obs("send_weekly_reminder_job", 0, None) EXCEPT !.raised = TRUE]
    /\ sessions' = db_close(sessions \cup {<<"send_weekly_reminder_job", 1>>},
                            <<"send_weekly_reminder_job", 1>>, TRUE)
    /\ UNCHANGED <<drugs, vacations, now, seed, reqs>>
    /\ pc' = Returned("send_weekly_reminder_job")

\* the daily job leaves by an exception, through its finally clause; it gets
\* as far as the reminder only with a drug to report
send_reorder_reminder_job_raises(where) ==
    /\ where = "send" => get_drugs_needing_reorder(drugs) # <<>>
    /\ last' = [Obs("send_reorder_reminder_job", 0, None) EXCEPT !.raised = TRUE]
    /\ sessions' = db_close(sessions \cup {<<"send_reorder_reminder_job", 1>>},
                            <<"send_reorder_reminder_job", 1>>, TRUE)
    /\ UNCHANGED <<drugs, vacations, now, seed, reqs>>
    /\ pc' = Returned("send_reorder_reminder_job")

\* POST /send-weekly-reminder
trigger_weekly_reminder(env) ==
    /\ LET list == get_drugs(drugs, 0, DefaultLimit)
           m == send_weekly_reminder(list, now, env)
       IN  last' = Sent("trigger_weekly_reminder",
                        IF m.returned THEN <<"Weekly reminder sent successfully">>
                        ELSE <<"Failed to send reminder">>,
                        m, list, None)
    /\ UNCHANGED <<drugs, vacations, now, seed, sessions, reqs>>
    /\ pc' = Returned("trigger_weekly_reminder")

\* a manual reorder trigger that mails every drug instead of the subset
trigger_reorder_reminder_all_drugs(env) ==
    /\ LET all_drugs == get_drugs(drugs, 0, DefaultLimit)
           doctor_vacation == get_current_doctor_vacation(vacations, now)
           m == send_reorder_reminder(all_drugs, all_drugs, doctor_vacation, env)
       IN  IF all_drugs = <<>>
           THEN last' = Obs("trigger_reorder_reminder", 0,
                            <<"No drugs need reordering at this time">>)
           ELSE last' = Sent("trigger_reorder_reminder",
                             IF m.returned
                             THEN <<"Reorder reminder sent for", Len(all_drugs),
                                    "drug(s)">>
                             ELSE <<"Failed to send reminder">>,
                             m, all_drugs, doctor_vacation)
    /\ UNCHANGED <<drugs, vacations, now, seed, sessions, reqs>>
    /\ pc' = Returned("trigger_reorder_reminder")

\* POST /send-reorder-reminder
trigger_reorder_reminder(env) ==
    /\ LET all_drugs == get_drugs(drugs, 0, DefaultLimit)
           drugs_to_reorder == get_drugs_needing_reorder(drugs)
           doctor_vacation == get_current_doctor_vacation(vacations, now)
           m == send_reorder_reminder(drugs_to_reorder, all_drugs,
                                      doctor_vacation, env)
       IN  IF drugs_to_reorder = <<>>
           THEN last' = Obs("trigger_reorder_reminder", 0,
                            <<"No drugs need reordering at this time">>)
           ELSE last' = Sent("trigger_reorder_reminder",
                             IF m.returned
                             THEN <<"Reorder reminder sent for", Len(drugs_to_reorder),
                                    "drug(s)">>
                             ELSE <<"Failed to send reminder">>,
                             m, drugs_to_reorder, doctor_vacation)
    /\ UNCHANGED <<drugs, vacations, now, seed, sessions, reqs>>
    /\ pc' = Returned("trigger_reorder_reminder")

Tick ==
    /\ now < MaxNow
    /\ now' = now + 1
    /\ UNCHANGED <<drugs, vacations, seed, last, pc, sessions, reqs>>

\* one migrated row is stored at startup
Init ==
    /\ seed = 1
    /\ drugs = [i \in 1 .. seed |-> SeedRow(i)]
    /\ vacations = <<>>
    /\ now = StartDay
    /\ last = Obs("startup", 0, None)
    /\ pc = Idle
    /\ sessions = {}
    /\ reqs = NoRequests

Next ==
    \/ \E in \in CreateInputs : create_drug(in)
    \/ \E id \in TargetIds(seed), u \in UpdateInputs : update_drug(id, u)
    \/ \E id \in TargetIds(seed) : delete_drug(id)
    \/ \E id \in TargetIds(seed), p \in 1 .. MaxPackages : refill_drug(id, p)
    \/ Tick

Spec == Init /\ [][Next]_vars

\* ------------------------------------------------------ rows of the table
\* DrugCreate payloads: a weekly schedule, and no doses and no pills at all
TableCreateInputs == {LThyroxin, Unscheduled}

\* DrugUpdate payloads at the edges of what the schema accepts: another
\* package_size, an amount of zero, a null for a NOT NULL and for a nullable
\* column, and two fields at once
TableUpdateInputs ==
    {[package_size |-> 35],
     [current_amount |-> R(0)],
     [current_amount |-> None],
     [even_week_pills |-> None],
     [schedule_type |-> "weekly_alternating", morning_post_food |-> R(0)]}

\* two migrated rows are stored at startup; the clock stands still, later
\* than the times in the rows
InitTable ==
    /\ seed = 2
    /\ drugs = [i \in 1 .. seed |-> SeedRow(i)]
    /\ vacations = <<>>
    /\ now = StartDay
    /\ last = Obs("startup", 0, None)
    /\ pc = Idle
    /\ sessions = {}
    /\ reqs = NoRequests

\* ids a request names in a table that only shrinks: the two rows and one id
\* that is never stored
TableIds == 1 .. 3

NextTable ==
    \/ \E id \in TableIds, u \in TableUpdateInputs : update_drug(id, u)
    \/ \E id \in TableIds, p \in 1 .. MaxPackages : refill_drug(id, p)
    \/ \E id \in TableIds : delete_drug(id)
    \/ \E id \in TableIds : read_drug(id)

SpecTable == InitTable /\ [][NextTable]_vars

\* ------------------------------------------------ the lifetime of a drug
\* created in an empty table, updated, refilled and deleted as days pass
InitLifetime ==
    /\ seed = 0
    /\ drugs = <<>>
    /\ vacations = <<>>
    /\ now = StartDay
    /\ last = Obs("startup", 0, None)
    /\ pc = Idle
    /\ sessions = {}
    /\ reqs = NoRequests

\* an amount of zero and a null for the NOT NULL amount
LifetimeUpdateInputs == {[current_amount |-> R(0)], [current_amount |-> None]}

NextLifetime ==
    \/ \E in \in TableCreateInputs : create_drug(in)
    \/ \E id \in TargetIds(seed), u \in LifetimeUpdateInputs : update_drug(id, u)
    \/ \E id \in TargetIds(seed), p \in 1 .. MaxPackages : refill_drug(id, p)
    \/ \E id \in TargetIds(seed) : delete_drug(id)
    \/ Tick

SpecLifetime == InitLifetime /\ [][NextLifetime]_vars

\* ----------------------------------------------------- stock and refills
\* the same table with rows added, refilled and deleted
NextRefill ==
    \/ \E in \in CreateInputs : create_drug(in)
    \/ \E id \in TargetIds(seed) : delete_drug(id)
    \/ \E id \in TargetIds(seed), p \in 1 .. MaxPackages : refill_drug(id, p)
    \/ Tick

SpecRefill == Init /\ [][NextRefill]_vars

\* ------------------------------------------------ reminders and vacations
\* the tables are empty at startup, as create_all leaves them
InitReminders ==
    /\ seed = 0
    /\ drugs = [i \in 1 .. seed |-> SeedRow(i)]
    /\ vacations = <<>>
    /\ now = StartDay
    /\ last = Obs("startup", 0, None)
    /\ pc = Idle
    /\ sessions = {}
    /\ reqs = NoRequests

\* the vacation a reminder can meet: ahead on the first day, current on the last
ReminderVacationInputs == {<<MaxNow, MaxNow>>}

NextReminders ==
    \/ \E in \in CreateInputs : create_drug(in)
    \/ read_reorder
    \/ \E in \in ReminderVacationInputs : create_doctor_vacation(in)
    \/ \E env \in Transport : send_weekly_reminder_job(env)
    \/ \E env \in Transport : send_reorder_reminder_job(env)
    \/ \E env \in Transport : trigger_weekly_reminder(env)
    \/ \E env \in Transport : trigger_reorder_reminder(env)
    \/ Tick

SpecReminders == InitReminders /\ [][NextReminders]_vars

\* ------------------------------------------------- a table of a full page
\* migrate_data left as many rows as get_drugs returns by default
InitBulk ==
    /\ seed = DefaultLimit
    /\ drugs = [i \in 1 .. seed |-> SeedRow(i)]
    /\ vacations = <<>>
    /\ now = StartDay
    /\ last = Obs("startup", 0, None)
    /\ pc = Idle
    /\ sessions = {}
    /\ reqs = NoRequests

NextBulk ==
    \/ \E in \in CreateInputs : create_drug(in)
    \/ read_reorder
    \/ \E env \in Transport : send_weekly_reminder_job(env)
    \/ \E env \in Transport : send_reorder_reminder_job(env)
    \/ \E env \in Transport : trigger_weekly_reminder(env)
    \/ \E env \in Transport : trigger_reorder_reminder(env)
    \/ Tick

SpecBulk == InitBulk /\ [][NextBulk]_vars

\* ------------------------------------------------------- the dosage model
\* DrugCreate payloads over every combination of schedule, doses, weekly
\* totals and amount
DosageInputs ==
    {[Moxonidin EXCEPT !.schedule_type = s,
                       !.morning_pre_food = a, !.morning_post_food = b,
                       !.evening_post_food = c,
                       !.even_week_pills = e, !.odd_week_pills = o,
                       !.current_amount = n] :
        s \in {"daily", "weekly_alternating"},
        a \in {R(0), Half}, b \in {R(0), R(2)}, c \in {R(0), R(1)},
        e \in {None, Some(R(0)), Some(R(4))},
        o \in {None, Some(R(0)), Some(R(3))},
        n \in {R(0), R(6), R(9), <<21, 2>>, R(35), R(63)}}

\* the table holds one row, of any dosage
InitDosage ==
    /\ seed = 1
    /\ \E in \in DosageInputs : drugs = <<Row(1, in, 0, None)>>
    /\ vacations = <<>>
    /\ now = StartDay
    /\ last = Obs("startup", 0, None)
    /\ pc = Idle
    /\ sessions = {}
    /\ reqs = NoRequests

NextDosage ==
    \/ \E id \in TargetIds(seed) : read_drug(id)
    \/ Tick

SpecDosage == InitDosage /\ [][NextDosage]_vars

\* --------------------------------------------------- the vacation table
\* the tables are empty at startup, as create_all leaves them
InitVacations ==
    /\ seed = 0
    /\ drugs = <<>>
    /\ vacations = <<>>
    /\ now = StartDay
    /\ last = Obs("startup", 0, None)
    /\ pc = Idle
    /\ sessions = {}
    /\ reqs = NoRequests

NextVacations ==
    \/ \E in \in VacationInputs : create_doctor_vacation(in)
    \/ \E id \in VacationIds, u \in VacationUpdateInputs : update_doctor_vacation(id, u)
    \/ \E id \in VacationIds : read_doctor_vacation(id)
    \/ read_current_doctor_vacation
    \/ \E id \in VacationIds : delete_doctor_vacation(id)
    \/ Tick

SpecVacations == InitVacations /\ [][NextVacations]_vars

\* ------------------------------------------- a drug through its life
\* schedule_type is a plain str in DrugBase and DrugUpdate: a value the
\* models do not know is stored as it comes
AsNeeded == [Moxonidin EXCEPT !.name = "Ibuprofen", !.schedule_type = "as_needed",
                              !.even_week_pills = Some(R(4)),
                              !.odd_week_pills = Some(R(3))]

StockCreateInputs == {Moxonidin, LThyroxin, AsNeeded}

StockUpdateInputs == UpdateInputs \cup {[schedule_type |-> "as_needed"]}

\* the tables are empty at startup; the clock stands still, the rates of a
\* drug do not depend on it
InitStock ==
    /\ seed = 0
    /\ drugs = <<>>
    /\ vacations = <<>>
    /\ now = StartDay
    /\ last = Obs("startup", 0, None)
    /\ pc = Idle
    /\ sessions = {}
    /\ reqs = NoRequests

NextStock ==
    \/ \E in \in StockCreateInputs : create_drug(in)
    \/ \E id \in TargetIds(seed), u \in StockUpdateInputs : update_drug(id, u)
    \/ \E id \in TargetIds(seed), p \in 1 .. MaxPackages : refill_drug(id, p)
    \/ \E id \in TargetIds(seed) : delete_drug(id)
    \/ \E id \in TargetIds(seed) : read_drug(id)

SpecStock == InitStock /\ [][NextStock]_vars

\* ------------------------------------------- triggers on the event loop
\* which of the two triggers an invocation belongs to
Trigger(i) ==
    IF i[1] \in {"send_weekly_reminder_job", "trigger_weekly_reminder"}
    THEN "weekly" ELSE "daily"

Running(op) == \E i \in Invocations : i[1] = op /\ pc[i] = "running"

\* the cron time of a job comes, or a request for a route comes in: the
\* coroutine is handed to the loop
arrive(i) ==
    /\ pc[i] = "idle"
    /\ pc' = [pc EXCEPT ![i] = "pending"]
    /\ UNCHANGED <<drugs, vacations, now, seed, last, sessions, reqs>>

\* a loop that would take up a coroutine while another one is running
start_while_busy(i) ==
    /\ pc[i] = "pending"
    /\ pc' = [pc EXCEPT ![i] = "running"]
    /\ UNCHANGED <<drugs, vacations, now, seed, last, sessions, reqs>>

\* the loop takes up a coroutine; it does so only when no coroutine is
\* running, and none of the four bodies gives the loop back before it
\* returns: their awaits end in the blocking call mailjet.send.create
start(i) ==
    /\ pc[i] = "pending"
    /\ \A j \in Invocations : pc[j] # "running"
    /\ pc' = [pc EXCEPT ![i] = "running"]
    /\ UNCHANGED <<drugs, vacations, now, seed, last, sessions, reqs>>

\* two migrated rows, the second of which needs reorder
InitLoop ==
    /\ seed = 2
    /\ drugs = [i \in 1 .. seed |-> SeedRow(i)]
    /\ vacations = <<>>
    /\ now = StartDay
    /\ last = Obs("startup", 0, None)
    /\ pc = Idle
    /\ sessions = {}
    /\ reqs = NoRequests

NextLoop ==
    \/ \E i \in Invocations : arrive(i)
    \/ \E i \in Invocations : start(i)
    \/ \E env \in Transport :
           Running("send_weekly_reminder_job") /\ send_weekly_reminder_job(env)
    \/ \E env \in Transport :
           Running("send_reorder_reminder_job") /\ send_reorder_reminder_job(env)
    \/ \E env \in Transport :
           Running("trigger_weekly_reminder") /\ trigger_weekly_reminder(env)
    \/ \E env \in Transport :
           Running("trigger_reorder_reminder") /\ trigger_reorder_reminder(env)

SpecLoop == InitLoop /\ [][NextLoop]_vars

\* The cron times of both jobs keep coming, the loop takes up a job handed
\* to it (its ready queue is first in, first out), and a body that has
\* started returns, so that the loop is free again and again: the Mailjet
\* client ends a call by an answer, an error or its timeout.  The last
\* conjunct is weak fairness of the returning steps, whose enabling
\* condition is that an invocation is running.
FairLoop ==
    /\ \A j \in ScheduledJobs : WF_vars(arrive(<<j, 1>>)) /\ SF_vars(start(<<j, 1>>))
    /\ []<>(\A i \in Invocations : pc[i] # "running")

SpecLoopFair == SpecLoop /\ FairLoop

\* --------------------------------------------- refill requests in flight
\* a drug in packages of twenty, none in stock
Ramipril == [Moxonidin EXCEPT !.name = "Ramipril", !.package_size = 20,
                              !.current_amount = R(0)]

\* one migrated row of it is stored at startup
InitRequests ==
    /\ seed = 1
    /\ drugs = [i \in 1 .. seed |-> Row(i, Ramipril, 0, None)]
    /\ vacations = <<>>
    /\ now = StartDay
    /\ last = Obs("startup", 0, None)
    /\ pc = Idle
    /\ sessions = {}
    /\ reqs = NoRequests

\* what a request names: the stored drug with any number of packages, or an
\* id that is not stored
RequestInputs == ({1} \X (1 .. MaxPackages)) \cup {<<2, 1>>}

NextRequests ==
    \/ \E n \in 1 .. MaxRequests, in \in RequestInputs : refill_arrive(n, in[1], in[2])
    \/ \E n \in 1 .. MaxRequests : refill_route(n)
    \/ \E n \in 1 .. MaxRequests : refill_close(n)

SpecRequests == InitRequests /\ [][NextRequests]_vars

\* ------------------------------------------------ the two scheduled jobs
\* the exits of a job that is running: by an exception or by a return
Ends(j) ==
    /\ Running(j)
    /\ IF j = "send_weekly_reminder_job"
       THEN \/ \E where \in JobFailures : send_weekly_reminder_job_raises(where)
            \/ \E env \in Transport : send_weekly_reminder_job(env)
       ELSE \/ \E where \in JobFailures : send_reorder_reminder_job_raises(where)
            \/ \E env \in Transport : send_reorder_reminder_job(env)

NextJobs ==
    \/ \E in \in CreateInputs : create_drug(in)
    \/ \E j \in ScheduledJobs : arrive(<<j, 1>>)
    \/ \E j \in ScheduledJobs : start(<<j, 1>>)
    \/ \E env \in Transport :
           Running("send_weekly_reminder_job") /\ send_weekly_reminder_job(env)
    \/ \E env \in Transport :
           Running("send_reorder_reminder_job") /\ send_reorder_reminder_job(env)
    \/ \E where \in JobFailures :
           Running("send_weekly_reminder_job") /\ send_weekly_reminder_job_raises(where)
    \/ \E where \in JobFailures :
           Running("send_reorder_reminder_job") /\ send_reorder_reminder_job_raises(where)

SpecJobs == InitReminders /\ [][NextJobs]_vars

\* The loop takes up a job handed to it and runs the job that has started to
\* one of its exits: the body has no point at which it gives the loop back,
\* and its calls to the database and to the Mailjet client end by an answer,
\* an error or the client's timeout.
FairJobs ==
    \A j \in ScheduledJobs : SF_vars(start(<<j, 1>>)) /\ WF_vars(Ends(j))

SpecJobsFair == SpecJobs /\ FairJobs

\* ------------------------------------------------------------------ claims
\* exact comparisons of rationals by cross-multiplication
REq(x, y) == IsNum(x) /\ IsNum(y) /\ x[1] * y[2] = y[1] * x[2]
RMul(x, y) == Norm(x[1] * y[1], x[2] * y[2])

\* the last handler answered with a DrugResponse
DrugAnswered == last.op = "get_drug" /\ last.result # None
Answer == TheVal(last.result)

\* C1: a drug read has needs_reorder true iff its weeks_remaining, which is a
\* seventh of its days_remaining, is below 3; a drug whose current_amount is
\* exactly 21 times its positive daily_consumption has needs_reorder false.
C1_ReorderIffBelowThreeWeeks ==
    DrugAnswered =>
        /\ IsNum(Answer.weeks_remaining)
        /\ REq(RMul(Answer.weeks_remaining, R(7)), Answer.days_remaining)
        /\ Answer.needs_reorder <=>
               Answer.weeks_remaining[1] < 3 * Answer.weeks_remaining[2]
        /\ (/\ RLt(R(0), Answer.daily_consumption)
            /\ REq(Answer.current_amount, RMul(R(21), Answer.daily_consumption)))
           => Answer.needs_reorder = FALSE

C1_Witness ==
    /\ DrugAnswered
    /\ RLt(R(0), Answer.daily_consumption)
    /\ REq(Answer.current_amount, RMul(R(21), Answer.daily_consumption))
    /\ Answer.weeks_remaining = R(3)
    /\ Answer.needs_reorder = FALSE

\* C2: a drug read with schedule_type daily has daily_consumption equal to the
\* sum of its four dose slots, whatever its even and odd week totals; with 2
\* in the morning after food, 1 in the evening after food and 9 pills left it
\* has daily_consumption 3, days_remaining 3 and needs_reorder true.
C2_DailyIsSumOfSlots ==
    (DrugAnswered /\ Answer.schedule_type = "daily") =>
        /\ Answer.daily_consumption =
               RAdd(RAdd(Answer.morning_pre_food, Answer.morning_post_food),
                    RAdd(Answer.evening_pre_food, Answer.evening_post_food))
        /\ (/\ Answer.morning_pre_food = R(0) /\ Answer.morning_post_food = R(2)
            /\ Answer.evening_pre_food = R(0) /\ Answer.evening_post_food = R(1)
            /\ Answer.current_amount = R(9))
           => /\ Answer.daily_consumption = R(3)
              /\ Answer.days_remaining = R(3)
              /\ Answer.needs_reorder = TRUE

C2_Witness ==
    /\ DrugAnswered /\ Answer.schedule_type = "daily"
    /\ Answer.morning_post_food = R(2) /\ Answer.evening_post_food = R(1)
    /\ Answer.morning_pre_food = R(0) /\ Answer.current_amount = R(9)
    /\ Answer.even_week_pills = Some(R(4)) /\ Answer.odd_week_pills = Some(R(3))
    /\ Answer.daily_consumption = R(3)

\* C3: a drug read with schedule_type weekly_alternating has daily_consumption
\* (even_week_pills + odd_week_pills) / 14 when both are present and 0 when
\* either is absent, whatever its four dose slots; with 4 and 3 the rate is
\* 1/2 and 35 pills give days_remaining 70.
C3_WeeklyIsFortnightAverage ==
    (DrugAnswered /\ Answer.schedule_type = "weekly_alternating") =>
        /\ IF IsNone(Answer.even_week_pills) \/ IsNone(Answer.odd_week_pills)
           THEN Answer.daily_consumption = R(0)
           ELSE REq(RMul(Answer.daily_consumption, R(14)),
                    RAdd(TheVal(Answer.even_week_pills), TheVal(Answer.odd_week_pills)))
        /\ (Answer.even_week_pills = Some(R(4)) /\ Answer.odd_week_pills = Some(R(3)))
           => /\ Answer.daily_consumption = Half
              /\ Answer.current_amount = R(35) => Answer.days_remaining = R(70)

C3_Witness ==
    /\ DrugAnswered /\ Answer.schedule_type = "weekly_alternating"
    /\ Answer.even_week_pills = Some(R(4)) /\ Answer.odd_week_pills = Some(R(3))
    /\ Answer.morning_post_food = R(2)
    /\ Answer.current_amount = R(35)
    /\ Answer.daily_consumption = Half
    /\ Answer.days_remaining = R(70)

\* C4: for a drug read, of either schedule and any amount, days_remaining is
\* current_amount / daily_consumption when daily_consumption > 0 and 0 when
\* daily_consumption = 0; it is never the outcome of a division by zero.
C4_DaysRemainingGuarded ==
    DrugAnswered =>
        /\ Answer.days_remaining # ZeroDivisionError
        /\ IsNum(Answer.days_remaining)
        /\ IF RLt(R(0), Answer.daily_consumption)
           THEN REq(RMul(Answer.days_remaining, Answer.daily_consumption),
                    Answer.current_amount)
           ELSE Answer.daily_consumption = R(0) /\ Answer.days_remaining = R(0)

C4_Witness ==
    /\ DrugAnswered /\ Answer.schedule_type = "weekly_alternating"
    /\ IsNone(Answer.even_week_pills)
    /\ RLt(R(0), Answer.current_amount)
    /\ Answer.daily_consumption = R(0)
    /\ Answer.days_remaining = R(0)

\* C5: the list GET /drugs-status/reorder returns is the stored rows with
\* needs_reorder true, all of them, in stored order, and no other row.
C5_ReorderListIsFullFilter ==
    last.op = "get_drugs_needing_reorder" =>
        last.result = SelectSeq(drugs, needs_reorder)

\* C6: a vacation answered with start_date <= end_date has exactly one of
\* is_current, is_upcoming and is_past true, on whatever day it is read.
VacationAnswered ==
    /\ last.op \in {"create_doctor_vacation", "get_doctor_vacation"}
    /\ last.result # None

C6_ExactlyOneClass ==
    (VacationAnswered /\ Answer.start_date <= Answer.end_date) =>
        /\ Answer.is_current <=>
               (Answer.start_date <= last.at /\ last.at <= Answer.end_date)
        /\ Answer.is_upcoming <=> last.at < Answer.start_date
        /\ Answer.is_past <=> last.at > Answer.end_date
        /\ Cardinality({c \in {"is_current", "is_upcoming", "is_past"} : Answer[c]}) = 1

C6_Witness ==
    /\ VacationAnswered
    /\ Answer.start_date = last.at /\ Answer.end_date = last.at
    /\ Answer.is_current /\ ~Answer.is_upcoming /\ ~Answer.is_past

\* the step is refill_drug(id, p) on a stored drug
RefillStep(id, p) == refill_drug(id, p) /\ IndexOf(drugs, id) # 0

\* C7 as stated: a refill of a stored drug with p packages adds p * package_size
\* to current_amount, sets last_refilled_at to the time of the refill and
\* changes no other field of that row and no other row.
C7_RefillChangesTwoFields ==
    [][\A id \in TargetIds(seed), p \in 1 .. MaxPackages :
          RefillStep(id, p) =>
              drugs' = [drugs EXCEPT
                  ![IndexOf(drugs, id)].current_amount =
                      RAdd(@, R(p * drugs[IndexOf(drugs, id)].package_size)),
                  ![IndexOf(drugs, id)].last_refilled_at = Some(now)]]_vars

\* C7 as amended: the refill also sets updated_at of that row to the time of
\* the refill; every other field of the row and every other row keep their
\* values.
C7_RefillEffect ==
    [][\A id \in TargetIds(seed), p \in 1 .. MaxPackages :
          RefillStep(id, p) =>
              drugs' = [drugs EXCEPT
                  ![IndexOf(drugs, id)].current_amount =
                      RAdd(@, R(p * drugs[IndexOf(drugs, id)].package_size)),
                  ![IndexOf(drugs, id)].last_refilled_at = Some(now),
                  ![IndexOf(drugs, id)].updated_at = now]]_vars

\* package_size 30, current_amount 9, two packages: 69, next to another row
C7_Witness ==
    /\ last.op = "refill_drug" /\ last.result # None
    /\ Answer.package_size = 30
    /\ Answer.current_amount = R(69)
    /\ Answer.last_refilled_at = Some(last.at)
    /\ Len(drugs) = 2

\* the last handler was the daily trigger, scheduled or manual
ReorderTriggered ==
    last.op \in {"send_reorder_reminder_job", "trigger_reorder_reminder"}

\* C8: an invocation of the daily trigger calls send_email once when some
\* drug it read needs reorder and not at all when none does.
C8_SendsIffSubsetNonEmpty ==
    ReorderTriggered =>
        /\ last.send_email_calls \in {0, 1}
        /\ last.send_email_calls = 1 <=>
               \E i \in 1 .. Min2(Len(drugs), DefaultLimit) : needs_reorder(drugs[i])

C8_Witness ==
    /\ last.op = "send_reorder_reminder_job"
    /\ last.send_email_calls = 1
    /\ Len(last.drugs_arg) = 1
    /\ needs_reorder(drugs[1])

\* C9: a reorder reminder composed while a vacation is current differs from
\* the reminder composed for the same drugs with no current vacation.
C9_VacationAnnotated ==
    (ReorderTriggered /\ last.send_email_calls = 1 /\ last.vacation_arg # None) =>
        <<last.subject, last.body>> #
            <<ReorderSubject,
              send_reorder_reminder(last.drugs_arg, get_drugs(drugs, 0, DefaultLimit),
                                    None, CHOOSE env \in Transport : TRUE).body>>

\* the last handler was the weekly trigger, scheduled or manual
WeeklyTriggered ==
    last.op \in {"send_weekly_reminder_job", "trigger_weekly_reminder"}

\* C10: an invocation of the weekly trigger sends one reminder with an entry
\* for every stored drug, in stored order.
C10_WeeklyCoversAllDrugs ==
    WeeklyTriggered =>
        /\ last.send_email_calls = 1
        /\ Len(last.body.entries) = Len(drugs)
        /\ \A i \in DOMAIN drugs : last.body.entries[i] = WeeklyEntry(drugs[i], last.at)

\* what one send reaches: the transport is configured, does not raise and
\* answers 200
Delivered(env) == env.configured /\ ~env.raises /\ env.status_code = HttpOk

\* what an invocation did besides answering its caller
Effect(o) ==
    [send_email_calls |-> o.send_email_calls, create_calls |-> o.create_calls,
     subject |-> o.subject, body |-> o.body]

\* the observation a scheduled firing leaves from the current state
ScheduledWeekly(env) ==
    LET list == get_drugs(drugs, 0, DefaultLimit)
    IN  Sent("send_weekly_reminder_job", None,
             send_weekly_reminder(list, now, env), list, None)

ScheduledReorder(env) ==
    LET subset == get_drugs_needing_reorder(drugs)
        vac == get_current_doctor_vacation(vacations, now)
    IN  IF subset # <<>>
        THEN Sent("send_reorder_reminder_job", None,
                  send_reorder_reminder(subset, get_drugs(drugs, 0, DefaultLimit),
                                        vac, env),
                  subset, vac)
        ELSE Obs("send_reorder_reminder_job", 0, None)

\* C11: from any store and under any transport behaviour, a manual trigger
\* decides to send exactly when the scheduled firing of the same trigger
\* would, hands send_email the same subject and body, leaves both tables as
\* they are, and answers with the success message exactly when send_email
\* returned True (with the failure message when a send was made and failed,
\* and with a third message when the daily trigger had nothing to send).
\* An observation made at the current clock value was made from the tables
\* as they are now, since every step that writes a table replaces it.
C11_ManualSameAsScheduled ==
    /\ [][last'.op \in ScheduledJobs \cup TriggerRoutes
              => UNCHANGED <<drugs, vacations>>]_vars
    /\ []((last.at = now /\ last.op = "send_weekly_reminder_job") =>
              \E env \in Transport : last = ScheduledWeekly(env))
    /\ []((last.at = now /\ last.op = "send_reorder_reminder_job") =>
              \E env \in Transport : last = ScheduledReorder(env))
    /\ []((last.at = now /\ last.op = "trigger_weekly_reminder") =>
              /\ \E env \in Transport :
                     /\ Effect(last) = Effect(ScheduledWeekly(env))
                     /\ last.returned = ScheduledWeekly(env).returned
              /\ last.result = IF last.returned
                               THEN <<"Weekly reminder sent successfully">>
                               ELSE <<"Failed to send reminder">>)
    /\ []((last.at = now /\ last.op = "trigger_reorder_reminder") =>
              /\ \E env \in Transport :
                     /\ Effect(last) = Effect(ScheduledReorder(env))
                     /\ last.returned = ScheduledReorder(env).returned
              /\ last.result =
                     IF last.send_email_calls = 0
                     THEN <<"No drugs need reordering at this time">>
                     ELSE IF last.returned
                     THEN <<"Reorder reminder sent for",
                            Len(get_drugs_needing_reorder(drugs)), "drug(s)">>
                     ELSE <<"Failed to send reminder">>)

\* a manual daily trigger that made a send which the transport refused
C11_Witness ==
    /\ last.op = "trigger_reorder_reminder"
    /\ last.send_email_calls = 1 /\ last.create_calls = 1
    /\ last.result = <<"Failed to send reminder">>
    /\ last.body = ReorderBody(last.drugs_arg)
    /\ Len(last.drugs_arg) = 1

\* C12: no two invocations of the same trigger, scheduled or manual, are
\* running at the same time; one that arrives while another is running
\* waits until that one has returned.
C12_OneInFlightPerTrigger ==
    \A i, j \in Invocations :
        (i # j /\ Trigger(i) = Trigger(j)) =>
            ~(pc[i] = "running" /\ pc[j] = "running")

\* the weekly job is running while a manual weekly trigger has arrived
C12_Witness ==
    /\ pc[<<"send_weekly_reminder_job", 1>>] = "running"
    /\ pc[<<"trigger_weekly_reminder", 1>>] = "pending"
    /\ pc[<<"trigger_weekly_reminder", 2>>] = "pending"

\* the step in which a running invocation returns
Returns(i) == pc[i] = "running" /\ pc'[i] = "idle"

\* the step is the job or route op under the transport behaviour env
Invoked(op, env) ==
    CASE op = "send_weekly_reminder_job" -> send_weekly_reminder_job(env)
      [] op = "send_reorder_reminder_job" -> send_reorder_reminder_job(env)
      [] op = "trigger_weekly_reminder" -> trigger_weekly_reminder(env)
      [] op = "trigger_reorder_reminder" -> trigger_reorder_reminder(env)

\* C13: the step in which an invocation returns calls send_email at most
\* once and the transport at most once, and send_email gives back FALSE
\* exactly when the message was not delivered; that invocation is then idle,
\* no invocation becomes pending or running in that step, and no step other
\* than the return of an invocation sends anything.
C13_OneAttemptNoRetry ==
    [][/\ \A i \in Invocations : Returns(i) =>
              /\ last'.op = i[1]
              /\ last'.send_email_calls \in {0, 1}
              /\ last'.create_calls <= last'.send_email_calls
              /\ \A env \in Transport :
                     Invoked(i[1], env) =>
                         last'.returned = (last'.send_email_calls = 1 /\ Delivered(env))
              /\ \A j \in Invocations : pc'[j] = pc[j] \/ j = i
       /\ (\A i \in Invocations : ~Returns(i)) => last' = last]_vars

\* the weekly job has returned from a send the transport answered with 500,
\* and is idle with nothing pending
C13_Witness ==
    /\ last.op = "send_weekly_reminder_job"
    /\ last.send_email_calls = 1 /\ last.create_calls = 1
    /\ last.returned = FALSE
    /\ pc = Idle

\* the last invocation made a send that did not get through
SendFailed ==
    /\ last.op \in ScheduledJobs \cup TriggerRoutes
    /\ last.send_email_calls = 1 /\ ~last.returned

\* C14: whatever the transport does, no exception leaves an invocation and
\* send_email gives back FALSE unless the message was delivered with a 200
\* answer; after an invocation whose send failed, each of the two jobs comes
\* to run again.
C14_TransportFailureContained ==
    /\ [](last.op \in ScheduledJobs \cup TriggerRoutes =>
              /\ ~last.raised
              /\ last.returned => last.create_calls = 1)
    /\ [][\A i \in Invocations, env \in Transport :
              (Returns(i) /\ ~Delivered(env) /\ Invoked(i[1], env))
              => ~last'.returned /\ ~last'.raised /\ pc' = Returned(i[1])]_vars
    /\ \A j \in ScheduledJobs :
           SendFailed ~> (pc[<<j, 1>>] = "running")

\* the daily job has returned from a send in which the client raised
C14_Witness ==
    /\ SendFailed
    /\ last.op = "send_reorder_reminder_job"
    /\ last.create_calls = 1
    /\ pc[<<"send_reorder_reminder_job", 1>>] = "idle"

\* the last handler answered with the DrugResponse of a row it read or wrote
DrugReturned ==
    /\ last.op \in {"create_drug", "update_drug", "refill_drug", "get_drug"}
    /\ last.result # None

Stored(id) == drugs[IndexOf(drugs, id)]

\* C15: whatever creates, updates, refills and deletes came before, the
\* answer for a drug carries the stored fields of its row as they are in the
\* table, and its daily_consumption, days_remaining, weeks_remaining and
\* needs_reorder are the dosage formulas of those stored fields.
C15_DerivedFromStoredFields ==
    DrugReturned =>
        /\ IndexOf(drugs, last.id) # 0
        /\ \A f \in DOMAIN Stored(last.id) : Answer[f] = Stored(last.id)[f]
        /\ Answer.daily_consumption =
               (IF Stored(last.id).schedule_type = "weekly_alternating"
                THEN IF IsNone(Stored(last.id).even_week_pills)
                        \/ IsNone(Stored(last.id).odd_week_pills)
                     THEN R(0)
                     ELSE RDiv(RAdd(TheVal(Stored(last.id).even_week_pills),
                                    TheVal(Stored(last.id).odd_week_pills)), R(14))
                ELSE RAdd(RAdd(Stored(last.id).morning_pre_food,
                               Stored(last.id).morning_post_food),
                          RAdd(Stored(last.id).evening_pre_food,
                               Stored(last.id).evening_post_food)))
        /\ Answer.days_remaining =
               (IF Answer.daily_consumption = R(0) THEN R(0)
                ELSE RDiv(Stored(last.id).current_amount, Answer.daily_consumption))
        /\ Answer.weeks_remaining = RDiv(Answer.days_remaining, R(7))
        /\ Answer.needs_reorder = RLt(Answer.weeks_remaining, R(3))

\* a read of a drug that was refilled and then switched to the alternating
\* schedule: 39 pills, no weekly totals, so no consumption
C15_Witness ==
    /\ last.op = "get_drug" /\ last.result # None
    /\ Answer.last_refilled_at # None
    /\ Answer.schedule_type = "weekly_alternating"
    /\ Answer.name = "Moxonidin"
    /\ Answer.current_amount = R(39)
    /\ Answer.days_remaining = R(0)
    /\ Answer.needs_reorder

\* C16: a drug read carries current_week_type "even" when the ISO week of
\* the day of the read is even and "odd" when it is odd, whatever the drug;
\* its current_week_pills is the even week total in an even week and the odd
\* week total in an odd week when its schedule is weekly_alternating, 0 when
\* that total is absent, and 0 for any other schedule.
C16_WeekParity ==
    DrugAnswered =>
        /\ Answer.current_week_type \in {"even", "odd"}
        /\ Answer.current_week_type = "even" <=> IsoWeek(last.at) % 2 = 0
        /\ Answer.current_week_pills =
               (IF Answer.schedule_type # "weekly_alternating" THEN R(0)
                ELSE IF IsoWeek(last.at) % 2 = 0
                THEN (IF IsNone(Answer.even_week_pills) THEN R(0)
                      ELSE TheVal(Answer.even_week_pills))
                ELSE (IF IsNone(Answer.odd_week_pills) THEN R(0)
                      ELSE TheVal(Answer.odd_week_pills)))

\* an alternating drug read in an even week: the even total, not the odd one
C16_Witness ==
    /\ DrugAnswered /\ Answer.schedule_type = "weekly_alternating"
    /\ IsoWeek(last.at) = 2
    /\ Answer.current_week_type = "even"
    /\ Answer.even_week_pills = Some(R(4)) /\ Answer.odd_week_pills = Some(R(3))
    /\ Answer.current_week_pills = R(4)

\* C17: a drug whose schedule_type is not weekly_alternating, a value the
\* program does not know included, is answered with daily_consumption equal
\* to the sum of its four dose slots and current_week_pills 0, and the answer
\* holds numbers, not an error.
C17_OtherSchedulesAreDaily ==
    (DrugReturned /\ Answer.schedule_type # "weekly_alternating") =>
        /\ Answer.daily_consumption =
               RAdd(RAdd(Answer.morning_pre_food, Answer.morning_post_food),
                    RAdd(Answer.evening_pre_food, Answer.evening_post_food))
        /\ Answer.current_week_pills = R(0)
        /\ IsNum(Answer.days_remaining) /\ IsNum(Answer.weeks_remaining)

\* an update has stored a schedule_type the program does not know
C17_Witness ==
    /\ last.op = "update_drug" /\ last.result # None
    /\ Answer.schedule_type = "as_needed"
    /\ Answer.name = "L-thyroxin"
    /\ Answer.even_week_pills = Some(R(4))
    /\ Answer.daily_consumption = R(1)
    /\ Answer.current_week_pills = R(0)

\* the stored vacations that contain the day of the answer
CurrentRows == {k \in 1 .. Len(vacations) :
                   vacations[k].start_date <= last.at /\ last.at <= vacations[k].end_date}

CurrentAnswered == last.op = "get_current_doctor_vacation" /\ last.at = now

\* C18: get_current_doctor_vacation returns a stored vacation with
\* start_date <= today <= end_date whenever one exists and None exactly when
\* none exists; a vacation that starts or ends today counts.
C18_CurrentVacationInclusive ==
    CurrentAnswered =>
        /\ (last.result = None) <=> (CurrentRows = {})
        /\ last.result # None =>
               \E k \in CurrentRows :
                   Answer = DoctorVacationResponse(vacations[k], last.at)

C18_Witness ==
    /\ CurrentAnswered
    /\ last.result # None
    /\ Answer.start_date < Answer.end_date
    /\ Answer.end_date = last.at
    /\ \E k \in 1 .. Len(vacations) : vacations[k].end_date < last.at

\* C19: after any sequence of create_doctor_vacation and
\* update_doctor_vacation operations every stored vacation has
\* start_date <= end_date.
C19_StartNotAfterEnd ==
    \A k \in 1 .. Len(vacations) : vacations[k].start_date <= vacations[k].end_date

\* what the claim asks of the entry of drug d in a reminder composed on day t
EntryComplete(e, d, t) ==
    /\ {"name", "strength", "schedule", "pills_remaining", "days_remaining"}
           \subseteq DOMAIN e
    /\ e.name = d.name
    /\ Truthy(d.dosage_strength) => e.strength = d.dosage_strength
    /\ e.schedule = WeeklyEntry(d, t).schedule
    /\ e.pills_remaining = d.current_amount
    /\ e.days_remaining = Fmt1f(days_remaining(d))

\* C20: the weekly and the reorder reminder text both carry, for every drug
\* they list, its name, its dosage strength when present, the quantity of its
\* schedule, the pills remaining and the days remaining.
C20_EntriesComplete ==
    ((WeeklyTriggered \/ ReorderTriggered) /\ last.send_email_calls = 1) =>
        /\ Len(last.body.entries) = Len(last.drugs_arg)
        /\ \A i \in 1 .. Len(last.drugs_arg) :
               EntryComplete(last.body.entries[i], last.drugs_arg[i], last.at)

\* some stored drug has this id
Known(rows, id) == \E i \in DOMAIN rows : rows[i].id = id

\* C21: refill_drug, update_drug and delete_drug with an id no stored drug has
\* return None, None and False and leave every stored drug as it was;
\* delete_drug with the id of a stored drug returns True, after it no drug has
\* that id and every other drug is as it was.
C21_NotFoundAndDelete ==
    [][\A id \in TableIds :
          /\ (~Known(drugs, id) /\ last'.op = "refill_drug" /\ last'.id = id
                  /\ \E p \in 1 .. MaxPackages : refill_drug(id, p))
                 => (last'.result = None /\ drugs' = drugs)
          /\ (~Known(drugs, id) /\ last'.op = "update_drug" /\ last'.id = id
                  /\ \E u \in TableUpdateInputs : update_drug(id, u))
                 => (last'.result = None /\ drugs' = drugs)
          /\ (~Known(drugs, id) /\ last'.op = "delete_drug" /\ last'.id = id
                  /\ delete_drug(id))
                 => (last'.result = FALSE /\ drugs' = drugs)
          /\ (Known(drugs, id) /\ last'.op = "delete_drug" /\ last'.id = id
                  /\ delete_drug(id))
                 => /\ last'.result = TRUE
                    /\ ~Known(drugs', id)
                    /\ drugs' = SelectSeq(drugs, LAMBDA d : d.id # id)]_vars

\* the first row was deleted and a second delete of its id found nothing; the
\* other row is still stored
C21_Witness ==
    /\ last.op = "delete_drug" /\ last.id = 1 /\ last.result = FALSE
    /\ Len(drugs) = 1 /\ drugs[1].id = 2

\* the step is update_drug(id, u) on a stored drug
UpdateStep(id, u) ==
    Known(drugs, id) /\ last'.op = "update_drug" /\ last'.id = id /\ update_drug(id, u)

Refills(id) ==
    /\ Known(drugs, id)
    /\ last'.op = "refill_drug" /\ last'.id = id
    /\ \E p \in 1 .. MaxPackages : refill_drug(id, p)

\* C23: last_refilled_at of a drug is None exactly as long as no refill of it
\* has succeeded since it was created: a drug is created with None, a step
\* that is not a successful refill of the drug leaves the value as it is, and
\* a successful refill sets it to a time, not earlier than the value before.
C23_LastRefilledHistory ==
    [][\A id \in TargetIds(seed) :
          /\ (~Known(drugs, id) /\ Known(drugs', id))
                 => TheVal(get_drug(drugs', id)).last_refilled_at = None
          /\ (Known(drugs, id) /\ Known(drugs', id) /\ ~Refills(id))
                 => TheVal(get_drug(drugs', id)).last_refilled_at =
                        TheVal(get_drug(drugs, id)).last_refilled_at
          /\ Refills(id)
                 => LET was == TheVal(get_drug(drugs, id)).last_refilled_at
                        is == TheVal(get_drug(drugs', id)).last_refilled_at
                    IN  /\ is = Some(now)
                        /\ was # None => TheVal(was) <= TheVal(is)]_vars

\* a drug created on the first day is refilled on a later day
C23_Witness ==
    /\ last.op = "refill_drug" /\ last.result # None
    /\ Answer.last_refilled_at = Some(last.at)
    /\ Answer.created_at < last.at
    /\ Answer.current_amount = R(30)
    /\ Answer.updated_at = last.at

\* a number that is not negative
NonNegative(x) == IsNum(x) /\ ~RLt(x, R(0))

\* C26: whatever creates, updates and refills the schemas accept, every stored
\* drug has current_amount >= 0, package_size > 0 and its four dose slots
\* >= 0, and a refill never lowers current_amount.
C26_StoredRanges ==
    /\ [](\A k \in DOMAIN drugs :
              /\ NonNegative(drugs[k].current_amount)
              /\ drugs[k].package_size > 0
              /\ \A f \in {"morning_pre_food", "morning_post_food",
                           "evening_pre_food", "evening_post_food"} :
                     NonNegative(drugs[k][f]))
    /\ [][\A id \in TargetIds(seed) :
              Refills(id) =>
                  ~RLt(TheVal(get_drug(drugs', id)).current_amount,
                       TheVal(get_drug(drugs, id)).current_amount)]_vars

\* a refilled drug was set to zero by an update, and an update with a null
\* amount has just been turned down
C26_Witness ==
    /\ last.op = "update_drug" /\ last.raised
    /\ \E k \in DOMAIN drugs :
           /\ drugs[k].id = last.id
           /\ drugs[k].current_amount = R(0)
           /\ drugs[k].last_refilled_at # None
           /\ drugs[k].name = "L-thyroxin"

\* C27: a stored drug whose daily_consumption is 0 needs reorder whatever its
\* current_amount is, so it is in the list of drugs needing reorder and every
\* invocation of the daily trigger, which then has a drug to report, calls
\* send_email with it.
C27_ZeroRateAlwaysReordered ==
    \A k \in DOMAIN drugs :
        daily_consumption(drugs[k]) = R(0) =>
            /\ needs_reorder(drugs[k])
            /\ last.op = "get_drugs_needing_reorder" =>
                   \E i \in DOMAIN last.result : last.result[i] = drugs[k]
            /\ ReorderTriggered =>
                   /\ last.send_email_calls = 1
                   /\ \E i \in DOMAIN last.drugs_arg : last.drugs_arg[i] = drugs[k]

\* C24: every invocation of a scheduled job comes back to idle, whether the
\* send succeeds, fails or is skipped or the job is left by an exception, and
\* a job that is not running holds no open database session.
C24_JobsReturnAndClose ==
    /\ \A j \in ScheduledJobs :
           (pc[<<j, 1>>] # "idle") ~> (pc[<<j, 1>>] = "idle")
    /\ [](\A j \in ScheduledJobs :
              pc[<<j, 1>>] # "running" => <<j, 1>> \notin sessions)

\* the daily job was left by an exception; it is idle and no session is open
C24_Witness ==
    /\ last.op = "send_reorder_reminder_job" /\ last.raised
    /\ pc[<<"send_reorder_reminder_job", 1>>] = "idle"
    /\ sessions = {}
    /\ drugs # <<>>

RECURSIVE Packages(_)
\* the packages of the requests in slots 1 .. n
Packages(n) == IF n = 0 THEN 0 ELSE reqs[n].packages + Packages(n - 1)

\* every slot holds an answered request for the stored drug id, and all of
\* them came in when its current_amount was a: they were in flight together
InFlightTogether(id, a) ==
    /\ Known(drugs, id)
    /\ \A n \in 1 .. MaxRequests :
           /\ reqs[n].phase = "answered"
           /\ reqs[n].drug_id = id
           /\ reqs[n].initial = Some(a)

\* C25: refill requests for one drug that are in flight together all take
\* effect: each body adds its packages * package_size to the amount stored
\* when it runs, so that in the end current_amount is the initial amount plus
\* the sum of the packages times package_size, in whatever order the steps
\* of the requests come.
C25_NoLostRefill ==
    /\ [](\A id \in {1, 2} :
              \A n \in 1 .. MaxRequests :
                  (reqs[n].initial # None /\ InFlightTogether(id, TheVal(reqs[n].initial)))
                      => TheVal(get_drug(drugs, id)).current_amount =
                             RAdd(TheVal(reqs[n].initial),
                                  R(Packages(MaxRequests)
                                        * TheVal(get_drug(drugs, id)).package_size)))
    /\ [][\A n \in 1 .. MaxRequests :
              (reqs[n].phase = "open" /\ reqs'[n].phase = "answered"
                   /\ Known(drugs, reqs[n].drug_id))
                  => TheVal(get_drug(drugs', reqs[n].drug_id)).current_amount =
                         RAdd(TheVal(get_drug(drugs, reqs[n].drug_id)).current_amount,
                              R(reqs[n].packages
                                    * TheVal(get_drug(drugs, reqs[n].drug_id)).package_size))]_vars

\* two requests with different packages came in at the same amount and both
\* are answered
C25_Witness ==
    /\ InFlightTogether(1, R(0))
    /\ reqs[1].packages # reqs[MaxRequests].packages
    /\ sessions # {}

====
